---- MODULE Spec2Model ----
(***************************************************************************)
(* Model of homework.py: the fitness-tracker module with InfoMessage,      *)
(* Training and its subclasses Running, SportsWalking and Swimming, the    *)
(* dispatcher read_package, the function main and the __main__ script.     *)
(*                                                                         *)
(* Numbers.  Python evaluates the formulas in floating point.  The model   *)
(* evaluates them exactly, as fractions num/den of arbitrary-precision     *)
(* naturals with a sign (TLC's own integers are 32 bits wide, too narrow   *)
(* for the walking formula), and follows the code's order of operations.   *)
(* Fractions are not reduced, so values are compared with REq, never "=".  *)
(*                                                                         *)
(* A value the code computes once and uses several times (a local          *)
(* variable, the result of a call) is passed as a parameter to an operator *)
(* named ..._of or ...Step that holds the rest of the statement.           *)
(***************************************************************************)
EXTENDS Integers, Sequences, FiniteSets, TLC

(***************************************************************************)
(* Arbitrary-precision naturals: little-endian sequences of limbs in       *)
(* 0..Base-1 without leading zero limbs; zero is the empty sequence.       *)
(***************************************************************************)
Base == 10 ^ 4

RECURSIVE BFromNat(_)
BFromNat(k) ==
    IF k = 0 THEN << >> ELSE <<k % Base>> \o BFromNat(k \div Base)

RECURSIVE BAddC(_, _, _)
BAddC(a, b, c) ==
    IF a = << >> /\ b = << >>
    THEN (IF c = 0 THEN << >> ELSE <<c>>)
    ELSE LET x == IF a = << >> THEN 0 ELSE Head(a)
             y == IF b = << >> THEN 0 ELSE Head(b)
             s == x + y + c
         IN  <<s % Base>> \o BAddC(IF a = << >> THEN a ELSE Tail(a),
                                  IF b = << >> THEN b ELSE Tail(b),
                                  s \div Base)

BAdd(a, b) == BAddC(a, b, 0)

RECURSIVE BMulLimb(_, _, _)
BMulLimb(a, k, c) ==
    IF a = << >>
    THEN (IF c = 0 THEN << >> ELSE <<c>>)
    ELSE LET p == Head(a) * k + c
         IN  <<p % Base>> \o BMulLimb(Tail(a), k, p \div Base)

BShift(a) == IF a = << >> THEN a ELSE <<0>> \o a

RECURSIVE BMul(_, _)
BMul(a, b) ==
    IF a = << >> \/ b = << >> THEN << >>
    ELSE IF Head(b) = 0 THEN BShift(BMul(a, Tail(b)))
    ELSE BAdd(BMulLimb(a, Head(b), 0), BShift(BMul(a, Tail(b))))

\* -1, 0, 1 as a < b, a = b, a > b
RECURSIVE BCmpTop(_, _, _)
BCmpTop(a, b, i) ==
    IF i = 0 THEN 0
    ELSE IF a[i] < b[i] THEN -1
    ELSE IF a[i] > b[i] THEN 1
    ELSE BCmpTop(a, b, i - 1)

BCmp(a, b) ==
    IF Len(a) < Len(b) THEN -1
    ELSE IF Len(a) > Len(b) THEN 1
    ELSE BCmpTop(a, b, Len(a))

RECURSIVE BStrip(_)
BStrip(a) ==
    IF a = << >> THEN a
    ELSE IF a[Len(a)] = 0 THEN BStrip(SubSeq(a, 1, Len(a) - 1))
    ELSE a

\* a - b for a >= b
RECURSIVE BSubB(_, _, _)
BSubB(a, b, c) ==
    IF a = << >> THEN << >>
    ELSE LET y == IF b = << >> THEN 0 ELSE Head(b)
             s == Head(a) - y - c
         IN  <<(s + Base) % Base>> \o BSubB(Tail(a),
                                            IF b = << >> THEN b ELSE Tail(b),
                                            IF s < 0 THEN 1 ELSE 0)

BSub(a, b) == BStrip(BSubB(a, b, 0))

(***************************************************************************)
(* Signed fractions [neg, n, d]: the value (-1)^neg * n / d, with d > 0    *)
(* and neg = FALSE when n is zero.                                         *)
(***************************************************************************)
Abs(i) == IF i < 0 THEN -i ELSE i

Num(i) == [neg |-> i < 0, n |-> BFromNat(Abs(i)), d |-> BFromNat(1)]

Frac(p, q) == [neg |-> p < 0, n |-> BFromNat(Abs(p)), d |-> BFromNat(q)]

RMk(neg, n, d) == [neg |-> neg /\ n # << >>, n |-> n, d |-> d]

RMul(x, y) == RMk(x.neg # y.neg, BMul(x.n, y.n), BMul(x.d, y.d))

\* x / y for y # 0 (the callers raise ZeroDivisionError before dividing by 0)
RDiv(x, y) == RMk(x.neg # y.neg, BMul(x.n, y.d), BMul(x.d, y.n))

RAdd_cmp(x, y, p, q, dd, c) ==
    IF c = 0 THEN RMk(FALSE, << >>, dd)
    ELSE IF c > 0 THEN RMk(x.neg, BSub(p, q), dd)
    ELSE RMk(y.neg, BSub(q, p), dd)

RAdd_of(x, y, p, q, dd) ==
    IF x.neg = y.neg
    THEN RMk(x.neg, BAdd(p, q), dd)
    ELSE RAdd_cmp(x, y, p, q, dd, BCmp(p, q))

RAdd(x, y) ==
    RAdd_of(x, y, BMul(x.n, y.d), BMul(y.n, x.d), BMul(x.d, y.d))

RNeg(x) == RMk(~x.neg, x.n, x.d)

REq(x, y) == (x.neg = y.neg) /\ (BMul(x.n, y.d) = BMul(y.n, x.d))

RNonNeg(x) == ~x.neg

\* floor(a / b) and a mod b for b # 0, by long division on the limbs of a
RECURSIVE BDigit(_, _, _, _)
BDigit(r, b, lo, hi) ==
    \* the largest k in lo..hi with k * b <= r (lo * b <= r is known)
    IF lo = hi THEN lo
    ELSE IF BCmp(BMulLimb(b, (lo + hi + 1) \div 2, 0), r) <= 0
    THEN BDigit(r, b, (lo + hi + 1) \div 2, hi)
    ELSE BDigit(r, b, lo, (lo + hi + 1) \div 2 - 1)

BDivMod_digit(up, r0, b, k) ==
    [q |-> BStrip(<<k>> \o up.q), r |-> BSub(r0, BMulLimb(b, k, 0))]

BDivMod_rem(up, r0, b) == BDivMod_digit(up, r0, b, BDigit(r0, b, 0, Base - 1))

RECURSIVE BDivMod(_, _)
BDivMod_of(a, b, up) == BDivMod_rem(up, BStrip(<<Head(a)>> \o up.r), b)

BDivMod(a, b) ==
    IF a = << >> THEN [q |-> << >>, r |-> << >>]
    ELSE BDivMod_of(a, b, BDivMod(Tail(a), b))

(***************************************************************************)
(* Python values.  None is a record of its own kind; a call returns        *)
(* Return(v) or raises: Raise(e) names the exception.                      *)
(***************************************************************************)
None == [kind |-> "None"]

Return(v) == [exc |-> "none", val |-> v]

Raise(e) == [exc |-> e, val |-> None]

\* class constants
Training_LEN_STEP == Frac(65, 100)

M_IN_KM == 1000

MIN_IN_H == 60

CALORIES_MEAN_SPEED_MULTIPLIER == 18

CALORIES_MEAN_SPEED_SHIFT == Frac(179, 100)

CALORIES_BURNED_PER_MINUTE == Frac(35, 1000)

CALORIES_COEFFICIENT == Frac(29, 1000)

METERS_PER_SECOND_CONSTANT == Frac(278, 1000)

CM_INTO_METERS_CONSTANT == 100

Swimming_LEN_STEP == Frac(138, 100)

COEFFICIENT_FOR_SWIMMING == Frac(11, 10)

SPEED_MULTIPLIER == 2

\* InfoMessage.__init__
InfoMessage(training_type, duration, distance, speed, calories) ==
    [kind |-> "InfoMessage", training_type |-> training_type,
     duration |-> duration, distance |-> distance, speed |-> speed,
     calories |-> calories]

\* format(x, '.3f'): x in thousandths, rounded to the nearest (a tie, which
\* only a value that is exact in binary can be, goes to the even neighbour)
Format3_round(x, q, c) ==
    [neg |-> x.neg,
     milli |-> IF c > 0 \/ (c = 0 /\ q # << >> /\ Head(q) % 2 = 1)
               THEN BAdd(q, <<1>>) ELSE q]

Format3_of(x, dm) == Format3_round(x, dm.q, BCmp(BAdd(dm.r, dm.r), x.d))

Format3(x) == Format3_of(x, BDivMod(BMulLimb(x.n, 1000, 0), x.d))

\* InfoMessage.get_message: the fields of the line, in the line's order
get_message(self) ==
    IF self.calories = None
    THEN Raise("TypeError")
    ELSE Return([training_type |-> self.training_type,
                 duration |-> Format3(Num(self.duration)),
                 distance |-> Format3(self.distance),
                 speed |-> Format3(self.speed),
                 calories |-> Format3(self.calories)])

\* Training.__init__
Training_init(action, duration, weight) ==
    [kind |-> "Training", action |-> action, duration |-> duration,
     weight |-> weight]

\* a slip: "-" typed for "/"
Training_get_distance_minus(self) ==
    RAdd(RMul(Num(self.action), Training_LEN_STEP), RNeg(Num(M_IN_KM)))

Training_get_distance(self) ==
    RDiv(RMul(Num(self.action), Training_LEN_STEP), Num(M_IN_KM))

\* a slip: the step of the base class
Swimming_get_distance_base_step(self) ==
    RDiv(RMul(Num(self.action), Training_LEN_STEP), Num(M_IN_KM))

Swimming_get_distance(self) ==
    RDiv(RMul(Num(self.action), Swimming_LEN_STEP), Num(M_IN_KM))

\* self.get_distance(): the method of self's class
get_distance(self) ==
    IF self.kind = "Swimming"
    THEN Swimming_get_distance(self)
    ELSE Training_get_distance(self)

Training_get_mean_speed(self) ==
    IF self.duration = 0
    THEN Raise("ZeroDivisionError")
    ELSE Return(RDiv(get_distance(self), Num(self.duration)))

\* a slip: no override, the speed is the base class's distance / duration
Swimming_get_mean_speed_not_overridden(self) ==
    Training_get_mean_speed(self)

Swimming_get_mean_speed(self) ==
    IF self.duration = 0
    THEN Raise("ZeroDivisionError")
    ELSE Return(RDiv(RDiv(Num(self.length_pool * self.count_pool),
                          Num(M_IN_KM)),
                     Num(self.duration)))

\* self.get_mean_speed(): the method of self's class
get_mean_speed(self) ==
    IF self.kind = "Swimming"
    THEN Swimming_get_mean_speed(self)
    ELSE Training_get_mean_speed(self)

\* the body is "pass": the call returns None
Training_get_spent_calories(self) == Return(None)

\* a slip: the duration left in hours, MIN_IN_H forgotten
Running_get_spent_calories_in_hours(self, speed) ==
    IF speed.exc # "none" THEN speed
    ELSE Return(
        RMul(RDiv(RMul(RAdd(RMul(Num(CALORIES_MEAN_SPEED_MULTIPLIER),
                                 speed.val),
                            CALORIES_MEAN_SPEED_SHIFT),
                       Num(self.weight)),
                  Num(M_IN_KM)),
             Num(self.duration)))

\* speed: what Training.get_mean_speed(self) returned or raised
Running_get_spent_calories_of(self, speed) ==
    IF speed.exc # "none" THEN speed
    ELSE Return(
        RMul(RMul(RDiv(RMul(RAdd(RMul(Num(CALORIES_MEAN_SPEED_MULTIPLIER),
                                      speed.val),
                                 CALORIES_MEAN_SPEED_SHIFT),
                            Num(self.weight)),
                       Num(M_IN_KM)),
                  Num(self.duration)),
             Num(MIN_IN_H)))

Running_get_spent_calories(self) ==
    Running_get_spent_calories_of(self, Training_get_mean_speed(self))

\* x ** 2
Square(x) == RMul(x, x)

\* speed: what Training.get_mean_speed(self) returned or raised
SportsWalking_get_spent_calories_of(self, speed) ==
    IF speed.exc # "none" THEN speed
    ELSE IF self.height = 0 THEN Raise("ZeroDivisionError")
    ELSE Return(
        RMul(RMul(RAdd(RMul(CALORIES_BURNED_PER_MINUTE, Num(self.weight)),
                       RMul(RMul(RDiv(Square(RMul(speed.val,
                                                  METERS_PER_SECOND_CONSTANT)),
                                      RDiv(Num(self.height),
                                           Num(CM_INTO_METERS_CONSTANT))),
                                 CALORIES_COEFFICIENT),
                            Num(self.weight))),
                  Num(self.duration)),
             Num(MIN_IN_H)))

SportsWalking_get_spent_calories(self) ==
    SportsWalking_get_spent_calories_of(self, Training_get_mean_speed(self))

\* speed: what Swimming.get_mean_speed(self) returned or raised
Swimming_get_spent_calories_of(self, speed) ==
    IF speed.exc # "none" THEN speed
    ELSE Return(
        RMul(RMul(RMul(RAdd(speed.val, COEFFICIENT_FOR_SWIMMING),
                       Num(SPEED_MULTIPLIER)),
                  Num(self.weight)),
             Num(self.duration)))

\* a slip: the speed of the base class, from the strokes
Swimming_get_spent_calories_base_speed(self) ==
    Swimming_get_spent_calories_of(self, Training_get_mean_speed(self))

Swimming_get_spent_calories(self) ==
    Swimming_get_spent_calories_of(self, Swimming_get_mean_speed(self))

\* self.get_spent_calories(): the method of self's class
get_spent_calories(self) ==
    CASE self.kind = "Running" -> Running_get_spent_calories(self)
      [] self.kind = "SportsWalking" -> SportsWalking_get_spent_calories(self)
      [] self.kind = "Swimming" -> Swimming_get_spent_calories(self)
      [] OTHER -> Training_get_spent_calories(self)

\* the three assignments that end a subclass's __init__: self.distance,
\* self.speed and self.calories, the first exception raised ending it
CacheFields(self, distance, speed, calories) ==
    IF speed.exc # "none" THEN speed
    ELSE IF calories.exc # "none" THEN calories
    ELSE Return(self @@ [distance |-> distance, speed |-> speed.val,
                         calories |-> calories.val])

\* Running.__init__, self being the object after super().__init__
Running_init_of(self) ==
    CacheFields(self, Training_get_distance(self),
                Training_get_mean_speed(self),
                Running_get_spent_calories(self))

Running_init(action, duration, weight) ==
    Running_init_of([kind |-> "Running", action |-> action,
                     duration |-> duration, weight |-> weight])

\* SportsWalking.__init__, self being the object after self.height is set
SportsWalking_init_of(self) ==
    CacheFields(self, Training_get_distance(self),
                Training_get_mean_speed(self),
                SportsWalking_get_spent_calories(self))

SportsWalking_init(action, duration, weight, height) ==
    SportsWalking_init_of([kind |-> "SportsWalking", action |-> action,
                           duration |-> duration, weight |-> weight,
                           height |-> height])

\* Swimming.__init__, self being the object after self.count_pool is set
Swimming_init_of(self) ==
    CacheFields(self, Swimming_get_distance(self),
                Swimming_get_mean_speed(self),
                Swimming_get_spent_calories(self))

Swimming_init(action, duration, weight, length_pool, count_pool) ==
    Swimming_init_of([kind |-> "Swimming", action |-> action,
                      duration |-> duration, weight |-> weight,
                      length_pool |-> length_pool, count_pool |-> count_pool])

\* Training.show_training_info, the locals being passed in
show_training_info_of(self, training_type, distance, speed, calories) ==
    IF speed.exc # "none" THEN speed
    ELSE IF calories.exc # "none" THEN calories
    ELSE Return(InfoMessage(training_type, self.duration, distance,
                            speed.val, calories.val))

\* a slip: the base class's speed, whatever the class of self
show_training_info_base_speed(self) ==
    show_training_info_of(self, self.kind, get_distance(self),
                          Training_get_mean_speed(self),
                          get_spent_calories(self))

show_training_info(self) ==
    show_training_info_of(self, self.kind, get_distance(self),
                          get_mean_speed(self), get_spent_calories(self))

\* a slip: the classes of "RUN" and "WLK" exchanged
training_classes_swapped(workout_type) ==
    CASE workout_type = "RUN" -> "SportsWalking"
      [] workout_type = "SWM" -> "Swimming"
      [] workout_type = "WLK" -> "Running"
      [] OTHER -> "None"

\* the class a code names in training_classes; "None" for a code not in it
training_classes(workout_type) ==
    CASE workout_type = "RUN" -> "Running"
      [] workout_type = "SWM" -> "Swimming"
      [] workout_type = "WLK" -> "SportsWalking"
      [] OTHER -> "None"

\* training_classes[workout_type](*data): a call with the wrong number of
\* arguments raises TypeError
Construct(class, data) ==
    CASE class = "Running" ->
            IF Len(data) # 3 THEN Raise("TypeError")
            ELSE Running_init(data[1], data[2], data[3])
      [] class = "SportsWalking" ->
            IF Len(data) # 4 THEN Raise("TypeError")
            ELSE SportsWalking_init(data[1], data[2], data[3], data[4])
      [] class = "Swimming" ->
            IF Len(data) # 5 THEN Raise("TypeError")
            ELSE Swimming_init(data[1], data[2], data[3], data[4], data[5])

read_package(workout_type, data) ==
    IF training_classes(workout_type) # "None"
    THEN Construct(training_classes(workout_type), data)
    ELSE Return(None)

\* main(training), info being what training.show_training_info() returned
\* or raised: the exception raised, or the line printed
main_of(info) ==
    IF info.exc # "none" THEN info ELSE get_message(info.val)

main(training) ==
    IF training = None THEN Raise("AttributeError")
    ELSE main_of(show_training_info(training))

(***************************************************************************)
(* The state machine.  The module is either run as a script (module_name   *)
(* is "__main__": the loop over the literal packages) or imported          *)
(* (module_name is "homework"): a client then obtains one training, from   *)
(* read_package or from Training(...) itself, and calls its methods and    *)
(* main on it until a call raises.                                         *)
(***************************************************************************)
MaxDuration == 2

MaxLines == 2

Actions == {-720, 0, 720, 15000}

Durations == 0 .. MaxDuration

Weights == {75, 80}

Fourths == {-25, 0, 25, 180}

Fifths == {0, 40}

Codes == {"RUN", "WLK", "SWM", "XYZ"}

\* the parameter lists a client passes: two to five numbers
DataLists ==
    {SubSeq(<<a, d, w, x, y>>, 1, k) :
        a \in Actions, d \in Durations, w \in Weights, x \in Fourths,
        y \in Fifths, k \in 2 .. 5}

\* the list the script iterates
Packages ==
    << <<"WLK", <<9000, 1, 75, 180>> >>,
       <<"SWM", <<720, 1, 80, 25, 40>> >>,
       <<"RUN", <<15000, 1, 75>> >> >>

VARIABLES
    module_name,    \* "__main__" for the script, "homework" when imported
    pc,             \* "for", "main", "done": the script; "import", "client":
                    \* the client; "raised": an exception ended the run
    idx,            \* the script: the position of the loop in Packages
    workout_type,   \* the arguments of the last read_package call
    data,
    training,       \* the training at hand, None when there is none
    ret,            \* the last call: [op, exc, val]
    info,           \* the last InfoMessage show_training_info returned
    out             \* standard output: the lines printed

vars == <<module_name, pc, idx, workout_type, data, training, ret, info, out>>

NoCall == [op |-> "none", exc |-> "none", val |-> None]

Call(op, r) == [op |-> op, exc |-> r.exc, val |-> r.val]

Init ==
    /\ module_name \in {"__main__", "homework"}
    /\ pc = IF module_name = "__main__" THEN "for" ELSE "import"
    /\ idx = 1
    /\ workout_type = ""
    /\ data = << >>
    /\ training = None
    /\ ret = NoCall
    /\ info = None
    /\ out = << >>

\* a slip: every other package
NextIndex_skip(i) == i + 2

\* the for statement's step to the next package
NextIndex(i) == i + 1

\* training = read_package(code, params), r being what the call returned or
\* raised; an exception ends the run
ReadStep(code, params, r, then) ==
    /\ workout_type' = code
    /\ data' = params
    /\ ret' = Call("read_package", r)
    /\ training' = IF r.exc = "none" THEN r.val ELSE training
    /\ pc' = IF r.exc = "none" THEN then ELSE "raised"

\* main(training), r being the exception main raised or the line it printed
MainStep(r, then) ==
    /\ ret' = IF r.exc = "none" THEN Call("main", Return(None))
              ELSE Call("main", r)
    /\ out' = IF r.exc = "none" THEN Append(out, r.val) ELSE out
    /\ pc' = IF r.exc = "none" THEN then ELSE "raised"

\* script: training = read_package(workout_type, data) for the next package
ScriptRead ==
    /\ pc = "for"
    /\ idx <= Len(Packages)
    /\ ReadStep(Packages[idx][1], Packages[idx][2],
                read_package(Packages[idx][1], Packages[idx][2]), "main")
    /\ UNCHANGED <<module_name, idx, info, out>>

\* script: main(training), then on to the next package
ScriptMain ==
    /\ pc = "main"
    /\ MainStep(main(training), "for")
    /\ idx' = IF pc' = "for" THEN NextIndex(idx) ELSE idx
    /\ UNCHANGED <<module_name, workout_type, data, training, info>>

\* script: the list is exhausted
ScriptEnd ==
    /\ pc = "for"
    /\ idx > Len(Packages)
    /\ pc' = "done"
    /\ UNCHANGED <<module_name, idx, workout_type, data, training, ret, info,
                   out>>

\* client: training = read_package(code, params)
ClientReadPackage ==
    /\ pc = "import"
    /\ \E code \in Codes, params \in DataLists :
          ReadStep(code, params, read_package(code, params), "client")
    /\ UNCHANGED <<module_name, idx, info, out>>

\* client: training = Training(action, duration, weight)
ClientNewTraining ==
    /\ pc = "import"
    /\ \E a \in Actions, d \in Durations, w \in Weights :
          /\ training' = Training_init(a, d, w)
          /\ ret' = Call("Training", Return(Training_init(a, d, w)))
    /\ pc' = "client"
    /\ UNCHANGED <<module_name, idx, workout_type, data, info, out>>

\* client: a method call, r being what it returned or raised
Method(op, r) ==
    /\ pc = "client"
    /\ ret' = Call(op, r)
    /\ pc' = IF r.exc = "none" THEN "client" ELSE "raised"
    /\ info' = IF op = "show_training_info" /\ r.exc = "none"
               THEN r.val ELSE info
    /\ UNCHANGED <<module_name, idx, workout_type, data, training, out>>

\* client: training.get_distance(); None has no such attribute
ClientGetDistance ==
    Method("get_distance",
           IF training = None THEN Raise("AttributeError")
           ELSE Return(get_distance(training)))

ClientGetMeanSpeed ==
    Method("get_mean_speed",
           IF training = None THEN Raise("AttributeError")
           ELSE get_mean_speed(training))

ClientGetSpentCalories ==
    Method("get_spent_calories",
           IF training = None THEN Raise("AttributeError")
           ELSE get_spent_calories(training))

ClientShowTrainingInfo ==
    Method("show_training_info",
           IF training = None THEN Raise("AttributeError")
           ELSE show_training_info(training))

\* client: main(training)
ClientMain ==
    /\ pc = "client"
    /\ Len(out) < MaxLines
    /\ MainStep(main(training), "client")
    /\ UNCHANGED <<module_name, idx, workout_type, data, training, info>>

Next ==
    \/ ScriptRead
    \/ ScriptMain
    \/ ScriptEnd
    \/ ClientReadPackage
    \/ ClientNewTraining
    \/ ClientGetDistance
    \/ ClientGetMeanSpeed
    \/ ClientGetSpentCalories
    \/ ClientShowTrainingInfo
    \/ ClientMain

Spec == Init /\ [][Next]_vars

(***************************************************************************)
(* Properties.                                                             *)
(***************************************************************************)
Concrete == {"Running", "SportsWalking", "Swimming"}

IsTraining(t) == t.kind \in Concrete \cup {"Training"}

\* x <= y
RLe(x, y) == RNonNeg(RAdd(y, RNeg(x)))

\* C1: read_package with a code other than "RUN", "WLK", "SWM" raises: no
\* call with such a code returns a value to its caller.
C1_UnknownCodeRaises ==
    (ret.op = "read_package" /\ workout_type \notin {"RUN", "WLK", "SWM"})
        => ret.exc # "none"

\* C2: the calories operation called on a base Training fails, and no summary
\* is produced from a base Training: neither get_spent_calories nor
\* show_training_info returns to its caller.  (The claim asks the same of
\* get_mean_speed, which returns distance / duration for the base class.)
C2_BaseCaloriesFails ==
    (training.kind = "Training"
     /\ ret.op \in {"get_spent_calories", "show_training_info"})
        => ret.exc # "none"

\* C3: when read_package returns for a recognized code, the training is of
\* the code's class and its fields are the parameters in their order:
\* RUN [a,d,w] -> Running, WLK [a,d,w,h] -> SportsWalking,
\* SWM [a,d,w,p,c] -> Swimming.
C3_Fields(t, n) ==
    /\ Len(data) = n
    /\ t.action = data[1]
    /\ t.duration = data[2]
    /\ t.weight = data[3]

C3_DispatchPositional ==
    (ret.op = "read_package" /\ ret.exc = "none") =>
        /\ ret.val = training
        /\ workout_type = "RUN" =>
              /\ training.kind = "Running"
              /\ C3_Fields(training, 3)
              /\ DOMAIN training = {"kind", "action", "duration", "weight",
                                    "distance", "speed", "calories"}
        /\ workout_type = "WLK" =>
              /\ training.kind = "SportsWalking"
              /\ C3_Fields(training, 4)
              /\ training.height = data[4]
        /\ workout_type = "SWM" =>
              /\ training.kind = "Swimming"
              /\ C3_Fields(training, 5)
              /\ training.length_pool = data[4]
              /\ training.count_pool = data[5]
        /\ workout_type \notin {"RUN", "WLK", "SWM"} => training = None

C3_Witness ==
    /\ module_name = "homework"
    /\ ret.op = "read_package"
    /\ workout_type = "SWM"
    /\ training.kind = "Swimming"
    /\ data = <<720, 1, 80, 25, 40>>

C4_IsSample(t) ==
    t.kind = "Running" /\ t.action = 15000 /\ t.duration = 1 /\ t.weight = 75

C4_DistanceAndSpeed(t) ==
    /\ REq(get_distance(t), Frac(975, 100))
    /\ REq(t.distance, Frac(975, 100))
    /\ get_mean_speed(t).exc = "none"
    /\ REq(get_mean_speed(t).val, Frac(975, 100))
    /\ REq(t.speed, Frac(975, 100))

\* C4 as stated: for Running(15000, 1, 75) the distance and the mean speed
\* are 9.75 and the calories are 801.93 to two decimals.
C4_RunningSampleAsStated ==
    C4_IsSample(training) =>
        /\ C4_DistanceAndSpeed(training)
        /\ RLe(Frac(801925, 1000), get_spent_calories(training).val)
        /\ RLe(get_spent_calories(training).val, Frac(801935, 1000))

\* C4 as amended: for Running(15000, 1, 75) the distance and the mean speed
\* are 9.75 and the calories are 797.805, the value of
\* (18*9.75+1.79)*75/1000*1*60, printed as 797.805.
C4_RunningSample ==
    C4_IsSample(training) =>
        /\ C4_DistanceAndSpeed(training)
        /\ get_spent_calories(training).exc = "none"
        /\ REq(get_spent_calories(training).val, Frac(797805, 1000))
        /\ REq(training.calories, Frac(797805, 1000))
        /\ (ret.op = "get_spent_calories" =>
               REq(ret.val, Frac(797805, 1000)))
        /\ (ret.op = "main" /\ ret.exc = "none" =>
               out[Len(out)].calories = [neg |-> FALSE,
                                         milli |-> BFromNat(797805)])

C4_Witness ==
    /\ C4_IsSample(training)
    /\ ret.op = "main"
    /\ ret.exc = "none"
    /\ Len(out) > 0

\* the formulas of the documentation, each on a speed s
C5_Running(s, w, d) ==
    RMul(RAdd(RMul(Num(18), s), Frac(179, 100)), Frac(w * d * 60, 1000))

C5_Walking(s, w, d, h) ==
    RMul(RAdd(Frac(35 * w, 1000),
              RMul(RMul(RMul(s, s), Frac(278 * 278, 1000 * 1000)),
                   RDiv(Num(29 * w * 100), Num(1000 * h)))),
         Num(d * 60))

C5_Swimming(s, w, d) == RMul(RAdd(s, Frac(11, 10)), Num(2 * w * d))

\* the speed of the variant: from the pool for Swimming, else from the steps
C5_Speed(t) ==
    IF t.kind = "Swimming"
    THEN Frac(t.length_pool * t.count_pool, 1000 * t.duration)
    ELSE Frac(t.action * 65, 100 * 1000 * t.duration)

C5_Reference(t) ==
    CASE t.kind = "Running" -> C5_Running(C5_Speed(t), t.weight, t.duration)
      [] t.kind = "SportsWalking" ->
            C5_Walking(C5_Speed(t), t.weight, t.duration, t.height)
      [] t.kind = "Swimming" ->
            C5_Swimming(C5_Speed(t), t.weight, t.duration)

\* C5: for every training of a concrete class, get_spent_calories is the
\* class's documented formula on the class's own mean speed (for Swimming the
\* speed from the pool, not distance/duration): the value a call returns and
\* the value the constructor stored.
C5_CaloriesFormula ==
    training.kind \in Concrete =>
        /\ get_spent_calories(training).exc = "none"
        /\ REq(get_spent_calories(training).val, C5_Reference(training))
        /\ REq(training.calories, C5_Reference(training))
        /\ (ret.op = "get_spent_calories" =>
               ret.exc = "none" /\ REq(ret.val, C5_Reference(training)))

C5_Witness ==
    /\ training.kind = "Swimming"
    /\ ret.op = "get_spent_calories"
    /\ ~REq(get_mean_speed(training).val,
            RDiv(get_distance(training), Num(training.duration)))

\* action * step / 1000 with the step of the class
C6_Reference(t) ==
    IF t.kind = "Swimming"
    THEN Frac(t.action * 138, 100 * 1000)
    ELSE Frac(t.action * 65, 100 * 1000)

\* C6: get_distance is action * 0.65 / 1000 for Training, Running and
\* SportsWalking and action * 1.38 / 1000 for Swimming, a function of the
\* action count and the class alone; so are the value a call returns, the
\* value the constructor stored and the distance of the summary.
C6_DistanceFormula ==
    IsTraining(training) =>
        /\ REq(get_distance(training), C6_Reference(training))
        /\ (training.kind \in Concrete =>
               REq(training.distance, C6_Reference(training)))
        /\ (ret.op = "get_distance" =>
               ret.exc = "none" /\ REq(ret.val, C6_Reference(training)))
        /\ (info # None => REq(info.distance, C6_Reference(training)))

C6_Witness ==
    /\ training.kind = "Swimming"
    /\ training.action = 720
    /\ ret.op = "get_distance"
    /\ info # None

\* the training read_package builds from the parameters at hand with the
\* action count, the pool length and the lap count replaced
C7_Other(a, p, c) ==
    read_package("SWM", <<a, data[2], data[3], p, c>>).val

\* C7: the mean speed is distance / duration for Running and SportsWalking
\* and length_pool * count_pool / 1000 / duration for Swimming.  Of two
\* Swimming trainings that differ in the action count alone, the distances
\* differ and the speeds are equal; of two that differ in the pool length or
\* the lap count alone, the distances are equal, and the speeds differ
\* exactly when length_pool * count_pool does.
C7_SpeedIndependentOfDistance ==
    (ret.op = "read_package" /\ training.kind \in Concrete) =>
        /\ get_mean_speed(training).exc = "none"
        /\ REq(get_mean_speed(training).val, training.speed)
        /\ training.kind # "Swimming" =>
              /\ REq(training.speed,
                     Frac(training.action * 65,
                          100 * 1000 * training.duration))
              /\ REq(training.speed,
                     RDiv(training.distance, Num(training.duration)))
        /\ training.kind = "Swimming" =>
              /\ REq(training.speed,
                     Frac(training.length_pool * training.count_pool,
                          1000 * training.duration))
              /\ \A a \in Actions :
                    /\ REq(C7_Other(a, data[4], data[5]).speed,
                           training.speed)
                    /\ REq(C7_Other(a, data[4], data[5]).distance,
                           training.distance) <=> (a = data[1])
              /\ \A p \in Fourths, c \in Fifths :
                    /\ REq(C7_Other(data[1], p, c).distance,
                           training.distance)
                    /\ REq(C7_Other(data[1], p, c).speed, training.speed)
                          <=> (p * c = data[4] * data[5])

C7_Witness ==
    /\ ret.op = "read_package"
    /\ training.kind = "Swimming"
    /\ training.action = 720
    /\ training.length_pool = 25
    /\ training.count_pool = 40
    /\ ~REq(training.speed, RDiv(training.distance, Num(training.duration)))

C8_NonNegativeInputs(t) ==
    /\ t.action >= 0
    /\ t.duration > 0
    /\ t.weight >= 0
    /\ (t.kind = "SportsWalking" => t.height >= 0)
    /\ (t.kind = "Swimming" => t.length_pool >= 0 /\ t.count_pool >= 0)

\* C8: for a training of any class whose inputs are all nonnegative and whose
\* duration is not zero, get_distance and get_mean_speed return values >= 0.
C8_NonNegative ==
    (IsTraining(training) /\ C8_NonNegativeInputs(training)) =>
        /\ RNonNeg(get_distance(training))
        /\ RLe(Num(0), get_distance(training))
        /\ get_mean_speed(training).exc = "none"
        /\ RNonNeg(get_mean_speed(training).val)
        /\ (ret.op \in {"get_distance", "get_mean_speed"} =>
               ret.exc = "none" /\ RLe(Num(0), ret.val))

C8_Witness ==
    /\ training.kind = "Swimming"
    /\ C8_NonNegativeInputs(training)
    /\ training.action > 0
    /\ training.length_pool * training.count_pool > 0
    /\ ret.op = "get_mean_speed"

\* the class names and the calories, in thousandths, of the script's lines
C9_Kinds == <<"SportsWalking", "Swimming", "Running">>

C9_Calories == <<349252, 336000, 797805>>

C9_Line(k) ==
    /\ out[k] = main(read_package(Packages[k][1], Packages[k][2]).val).val
    /\ out[k].training_type = C9_Kinds[k]
    /\ out[k].calories = [neg |-> FALSE, milli |-> BFromNat(C9_Calories[k])]

C9_InOrder ==
    module_name = "__main__" =>
        /\ pc \in {"for", "main", "done"}
        /\ idx \in 1 .. Len(Packages) + 1
        /\ Len(out) = idx - 1
        /\ \A k \in 1 .. Len(out) : C9_Line(k)
        /\ (pc = "main" =>
               /\ idx <= Len(Packages)
               /\ training = read_package(Packages[idx][1],
                                          Packages[idx][2]).val)
        /\ (pc = "done" => Len(out) = Len(Packages))

\* the statements the script has yet to run, at most
C9_Measure ==
    IF pc = "done" THEN 0
    ELSE 2 * (Len(Packages) + 2 - idx) - (IF pc = "main" THEN 1 ELSE 0)

\* C9: the script prints one line per package, the k-th line being the
\* summary of the k-th package (SportsWalking, Swimming, Running), none
\* skipped and none printed twice, and it ends after the last package: no
\* exception ends it before, every step brings the end nearer, and nothing
\* is printed after the loop.
C9_OneLinePerPackageInOrder ==
    /\ []C9_InOrder
    /\ [][module_name = "__main__" =>
             /\ pc # "done"
             /\ C9_Measure' < C9_Measure
             /\ C9_Measure' >= 0
             /\ Len(out') \in {Len(out), Len(out) + 1}]_vars

C9_Witness ==
    /\ module_name = "__main__"
    /\ pc = "done"
    /\ Len(out) = 3

C10_Summary ==
    (info # None /\ training.kind \in Concrete) =>
        /\ info.training_type = training.kind
        /\ info.duration = training.duration
        /\ REq(info.distance, get_distance(training))
        /\ REq(info.speed, get_mean_speed(training).val)
        /\ REq(info.calories, get_spent_calories(training).val)
        /\ REq(info.distance, training.distance)
        /\ REq(info.speed, training.speed)
        /\ REq(info.calories, training.calories)
        /\ (ret.op = "show_training_info" => ret.val = info)
        /\ \A k \in 1 .. Len(out) : out[k] = get_message(info).val

\* C10: show_training_info on a training of a concrete class changes no field
\* of the training; the summary has the class's name, the training's
\* duration and the distance, speed and calories that get_distance,
\* get_mean_speed and get_spent_calories return and that the constructor
\* stored; a further derivation returns an equal summary.
C10_SummaryFrameAndRepeatable ==
    /\ []C10_Summary
    /\ [][ClientShowTrainingInfo =>
             /\ training' = training
             /\ (info # None => info' = info)]_vars

C10_Witness ==
    /\ training.kind = "Swimming"
    /\ info # None
    /\ ret.op = "show_training_info"
    /\ Len(out) = 2
    /\ ~REq(info.speed, RDiv(info.distance, Num(info.duration)))
====
